---------------------------- MODULE Spec2Model ----------------------------
(***************************************************************************)
(* Model of cogscale/foundation.py: the layered configuration resolver     *)
(* (Foundation.__init__), the connection fetcher and client builder        *)
(* (Repository), the event notifier (Observers) and parse_bool.            *)
(*                                                                         *)
(* Python values are tagged records.  A Python string is a sequence of     *)
(* atoms (TLA+ strings): "" is <<>>, concatenation is \o, and a string     *)
(* whose case matters is spelled one character per atom.                   *)
(***************************************************************************)
EXTENDS Integers, Sequences, FiniteSets, TLC

VARIABLES
    env,        \* process environment: variable name -> string
    fs,         \* file system: path -> directory or file with its text
    kwargs,     \* keyword arguments of the last Foundation(**kwargs) call
    self,       \* attributes assigned on the Foundation object so far
    cfgExc,     \* "idle" before a call, "none" or the exception it raised
    repo,       \* the Repository handle, or None
    response,   \* the HTTP response of the last GET, or None
    gets,       \* GET requests sent by the last Repository call
    repoRet,    \* outcome of the last Repository call
    clients,    \* MongoClient objects opened by the last Repository call
    observersArg, \* the registry last passed to Foundation.observers
    obs,        \* the Observers handle, or None
    posts,      \* POST requests sent by the last on_error/on_completion
    statuses,   \* the status the server gave each of those POSTs
    log,        \* logger.error entries written by the last notifier call
    obsRet,     \* outcome of the last notifier call
    pbIn,       \* argument of the last parse_bool call
    pbOut       \* its outcome

cfgVars == <<env, fs, kwargs, self, cfgExc>>
repoVars == <<repo, response, gets, repoRet, clients>>
obsVars == <<observersArg, obs, posts, statuses, log, obsRet>>
pbVars == <<pbIn, pbOut>>
vars == <<env, fs, kwargs, self, cfgExc, repo, response, gets, repoRet,
          clients, observersArg, obs, posts, statuses, log, obsRet, pbIn, pbOut>>

----------------------------------------------------------------------------
(* Python values *)

None == [t |-> "None"]
Str(s) == [t |-> "str", v |-> s]
Bool(b) == [t |-> "bool", v |-> b]
Num(n) == [t |-> "int", v |-> n]
List(s) == [t |-> "list", v |-> s]
Dict(f) == [t |-> "dict", v |-> f]
EmptyDict == Dict(<<>>)

\* every mapping from a subset of keys to vals
DictsOver(keys, vals) == {Dict(f) : f \in UNION {[D -> vals] : D \in SUBSET keys}}

\* bool(x), the test behind `if x`, `not x`, `x and y`, `x or y`
Truthy(x) ==
    CASE x.t = "None" -> FALSE
      [] x.t = "bool" -> x.v
      [] x.t = "int"  -> x.v # 0
      [] x.t = "str"  -> Len(x.v) > 0
      [] x.t = "list" -> Len(x.v) > 0
      [] x.t = "dict" -> DOMAIN x.v # {}

\* d.get(k, default) on a mapping d (a TLA+ function)
Get(d, k, default) == IF k \in DOMAIN d THEN d[k] ELSE default

\* outcomes of a call
Return(v) == [ok |-> TRUE, val |-> v]
Raise(e) == [ok |-> FALSE, exc |-> e]

----------------------------------------------------------------------------
(* parse_bool *)

\* str.lower() of one character
LowerChar(c) ==
    CASE c = "T" -> "t" [] c = "R" -> "r" [] c = "U" -> "u" [] c = "E" -> "e"
      [] c = "F" -> "f" [] c = "A" -> "a" [] c = "L" -> "l" [] c = "S" -> "s"
      [] c = "Y" -> "y"
      [] OTHER -> c

\* str.lower()
Lower(s) == [i \in 1..Len(s) |-> LowerChar(s[i])]

\* mutant: the comparison is made without lowercasing
ParseBoolCaseSensitive(s) ==
    IF s = None THEN Return(Bool(FALSE))
    ELSE IF s.t = "bool" THEN Return(s)
    ELSE IF s.t # "str" THEN Raise("AttributeError")
    ELSE Return(Bool(s.v = <<"t", "r", "u", "e">>))

\* parse_bool(s); a value that is no string has no .lower()
ParseBool(s) ==
    IF s = None THEN Return(Bool(FALSE))
    ELSE IF s.t = "bool" THEN Return(s)
    ELSE IF s.t # "str" THEN Raise("AttributeError")
    ELSE Return(Bool(Lower(s.v) = <<"t", "r", "u", "e">>))

----------------------------------------------------------------------------
(* Foundation: configuration resolver *)

PayloadPath == Str(<<"/job/payload.json">>)
ConfigPath == Str(<<"/job/config.json">>)

RootKey == "foundation_api_root"
KeyKey == "foundation_api_key"

\* os.getenv(name)
Getenv(name) == Get(env, name, None)

\* os.path.isfile(path)
IsFile(path) == path \in DOMAIN fs /\ fs[path].kind = "file"

\* json.load(f): the document the text encodes, or a decode error
JsonLoad(text) ==
    IF text.valid THEN Return(text.doc) ELSE Raise("JSONDecodeError")

\* mutant: a decode error is swallowed and the source counts as empty
LoadJsonFromEnvLenient(env_var) ==
    LET file_path == Getenv(env_var)
    IN  IF Truthy(file_path) /\ IsFile(file_path) /\ fs[file_path].text.valid
        THEN JsonLoad(fs[file_path].text)
        ELSE Return(EmptyDict)

LoadJsonFromEnv(env_var) ==
    LET file_path == Getenv(env_var)
    IN  IF Truthy(file_path) /\ IsFile(file_path)
        THEN JsonLoad(fs[file_path].text)
        ELSE Return(EmptyDict)

\* mutant: only a missing value is rejected (`is None`)
NotConfiguredNoneOnly(value) == value = None

\* `if not self.api_root` / `if not self.api_key`
NotConfigured(value) == ~Truthy(value)

\* mutant: the config file is consulted before the payload
ResolveSettingConfigFirst(kw, payload, config, key, env_name) ==
    IF payload.t # "dict" \/ config.t # "dict"
    THEN Raise("AttributeError")
    ELSE Return(Get(kw, key,
                    Get(config.v, key,
                        Get(payload.v, key, Getenv(env_name)))))

\* kwargs.get(k, payload.get(k, config.get(k, os.getenv(e)))): Python
\* evaluates the arguments first, so .get is looked up on payload and config
\* whatever kwargs holds.
ResolveSetting(kw, payload, config, key, env_name) ==
    IF payload.t # "dict" \/ config.t # "dict"
    THEN Raise("AttributeError")
    ELSE Return(Get(kw, key,
                    Get(payload.v, key,
                        Get(config.v, key, Getenv(env_name)))))

\* Foundation.__init__(**kw): the attributes set on self and the exception
FoundationNew(kw) ==
    LET payloadR == LoadJsonFromEnv("PAYLOAD_FILE")
        configR == LoadJsonFromEnv("CONFIG_FILE")
    IN  IF ~payloadR.ok THEN [self |-> <<>>, exc |-> payloadR.exc]
        ELSE IF ~configR.ok THEN [self |-> <<>>, exc |-> configR.exc]
        ELSE
        LET rootR == ResolveSetting(kw, payloadR.val, configR.val,
                                    RootKey, "FOUNDATION_API_ROOT")
            keyR == ResolveSetting(kw, payloadR.val, configR.val,
                                   KeyKey, "FOUNDATION_API_KEY")
        IN  IF ~rootR.ok THEN [self |-> <<>>, exc |-> rootR.exc]
            ELSE IF NotConfigured(rootR.val)
            THEN [self |-> [a \in {"api_root"} |-> rootR.val],
                  exc |-> "ConfigurationException"]
            ELSE IF NotConfigured(keyR.val)
            THEN [self |-> [api_root |-> rootR.val, api_key |-> keyR.val],
                  exc |-> "ConfigurationException"]
            ELSE [self |-> [api_root |-> rootR.val, api_key |-> keyR.val],
                  exc |-> "none"]

\* inputs of the resolver
KwValues == {None, Str(<<>>), Str(<<"kw">>)}
KwargsSet == {d.v : d \in DictsOver({RootKey, KeyKey}, KwValues)}

\* JSON objects of a source file: string fields, or fields set to null
PayloadDocs == DictsOver({RootKey, KeyKey}, {Str(<<>>), Str(<<"pl">>)})
                \cup DictsOver({RootKey, KeyKey}, {None})
ConfigDocs == DictsOver({RootKey, KeyKey}, {Str(<<>>), Str(<<"cf">>)})
                \cup DictsOver({RootKey, KeyKey}, {None})

FileEntries(docs) ==
    {[kind |-> "dir"], [kind |-> "file", text |-> [valid |-> FALSE]]}
    \cup {[kind |-> "file", text |-> [valid |-> TRUE, doc |-> d]] :
            d \in docs \cup {List(<<>>)}}

EnvStrings(name) ==
    CASE name = "PAYLOAD_FILE" -> {Str(<<>>), PayloadPath}
      [] name = "CONFIG_FILE" -> {Str(<<>>), ConfigPath}
      [] name = "FOUNDATION_API_ROOT" -> {Str(<<>>), Str(<<"ev">>)}
      [] name = "FOUNDATION_API_KEY" -> {Str(<<>>), Str(<<"ev">>)}

EnvNames == {"PAYLOAD_FILE", "CONFIG_FILE", "FOUNDATION_API_ROOT",
             "FOUNDATION_API_KEY"}

Envs == UNION {{e \in [D -> UNION {EnvStrings(n) : n \in D}] :
                    \A n \in D : e[n] \in EnvStrings(n)} : D \in SUBSET EnvNames}

FileSystems ==
    {f \in UNION {[D -> FileEntries(PayloadDocs) \cup FileEntries(ConfigDocs)] :
                    D \in SUBSET {PayloadPath, ConfigPath}} :
        /\ PayloadPath \in DOMAIN f => f[PayloadPath] \in FileEntries(PayloadDocs)
        /\ ConfigPath \in DOMAIN f => f[ConfigPath] \in FileEntries(ConfigDocs)}

CfgIdle ==
    /\ kwargs = <<>>
    /\ self = <<>>
    /\ cfgExc = "idle"

RepoIdle ==
    /\ repo = None
    /\ response = None
    /\ gets = <<>>
    /\ repoRet = None
    /\ clients = <<>>

ObsIdle ==
    /\ observersArg = None
    /\ obs = None
    /\ posts = <<>>
    /\ statuses = <<>>
    /\ log = <<>>
    /\ obsRet = None

PbIdle ==
    /\ pbIn = None
    /\ pbOut = None

\* Foundation(**kw)
FoundationInit ==
    \E kw \in KwargsSet :
        LET out == FoundationNew(kw)
        IN  /\ kwargs' = kw
            /\ self' = out.self
            /\ cfgExc' = out.exc
            /\ UNCHANGED <<env, fs, repoVars, obsVars, pbVars>>

InitConfig ==
    /\ env \in Envs
    /\ fs \in FileSystems
    /\ CfgIdle /\ RepoIdle /\ ObsIdle /\ PbIdle

NextConfig == FoundationInit

SpecConfig == InitConfig /\ [][NextConfig]_vars


----------------------------------------------------------------------------
(* Properties of the configuration resolver, stated over the inputs *)

Called == cfgExc # "idle"

\* the variable names an existing file
NamesFile(var) ==
    /\ var \in DOMAIN env
    /\ env[var] # Str(<<>>)
    /\ env[var] \in DOMAIN fs
    /\ fs[env[var]].kind = "file"

Malformed(var) == NamesFile(var) /\ ~fs[env[var]].text.valid

\* the source is empty, or a file holding a JSON object
LoadsAsMapping(var) ==
    NamesFile(var) => /\ fs[env[var]].text.valid
                      /\ fs[env[var]].text.doc.t = "dict"

SourcesLoad == LoadsAsMapping("PAYLOAD_FILE") /\ LoadsAsMapping("CONFIG_FILE")

\* the mapping a file source contributes
SourceMap(var) == IF NamesFile(var) THEN fs[env[var]].text.doc.v ELSE <<>>

Opt(d, k) == [present |-> k \in DOMAIN d, val |-> IF k \in DOMAIN d THEN d[k] ELSE None]

\* override, payload, config, environment: the four sources of a setting
Chain(key, env_name) ==
    << Opt(kwargs, key),
       Opt(SourceMap("PAYLOAD_FILE"), key),
       Opt(SourceMap("CONFIG_FILE"), key),
       [present |-> TRUE, val |-> IF env_name \in DOMAIN env THEN env[env_name] ELSE None] >>

RootChain == Chain(RootKey, "FOUNDATION_API_ROOT")
KeyChain == Chain(KeyKey, "FOUNDATION_API_KEY")

NonEmpty(v) == v # None /\ v # Str(<<>>)

HasNonEmpty(chain) == \E i \in 1..4 : chain[i].present /\ NonEmpty(chain[i].val)

FirstNonEmpty(chain) ==
    chain[CHOOSE i \in 1..4 : /\ chain[i].present /\ NonEmpty(chain[i].val)
                               /\ \A j \in 1..(i-1) :
                                    ~(chain[j].present /\ NonEmpty(chain[j].val))].val

FirstPresent(chain) ==
    chain[CHOOSE i \in 1..4 : /\ chain[i].present
                               /\ \A j \in 1..(i-1) : ~chain[j].present].val

\* C1 as stated: each setting is the first non-empty value in the order
\* override > payload > config > environment.
C1_FirstNonEmpty ==
    (Called /\ SourcesLoad) =>
        /\ HasNonEmpty(RootChain) =>
                /\ "api_root" \in DOMAIN self
                /\ self.api_root = FirstNonEmpty(RootChain)
        /\ ("api_key" \in DOMAIN self /\ HasNonEmpty(KeyChain)) =>
                self.api_key = FirstNonEmpty(KeyChain)

\* C1 amended: each setting is the value of the first source, in the order
\* override > payload > config > environment, in which the field is present,
\* whether or not that value is empty.
C1_FirstPresent ==
    (Called /\ SourcesLoad) =>
        /\ "api_root" \in DOMAIN self
        /\ self.api_root = FirstPresent(RootChain)
        /\ "api_key" \in DOMAIN self => self.api_key = FirstPresent(KeyChain)

\* config wins over the environment for api_root and payload over config for
\* api_key, with no override given
C1_Witness ==
    /\ cfgExc = "none"
    /\ kwargs = <<>>
    /\ ~RootChain[2].present
    /\ RootChain[4].val = Str(<<"ev">>)
    /\ self.api_root = Str(<<"cf">>)
    /\ KeyChain[3].present
    /\ self.api_key = Str(<<"pl">>)

\* C2 as stated: construction fails with ConfigurationException exactly when
\* api_root or api_key has no non-empty value in any of the four sources.
C2_FailsIffAllEmpty ==
    (Called /\ SourcesLoad) =>
        /\ cfgExc = "ConfigurationException"
                <=> ~(HasNonEmpty(RootChain) /\ HasNonEmpty(KeyChain))
        /\ (HasNonEmpty(RootChain) /\ HasNonEmpty(KeyChain)) => cfgExc = "none"

\* C2 amended: construction fails with ConfigurationException exactly when
\* both files load as mappings and the first present source of api_root or
\* of api_key holds an empty or null value; it yields an object, with both
\* settings non-empty, exactly when both files load and neither is so.
C2_FailsIffFirstPresentEmpty ==
    Called =>
        /\ cfgExc = "ConfigurationException"
                <=> /\ SourcesLoad
                    /\ \/ ~NonEmpty(FirstPresent(RootChain))
                       \/ ~NonEmpty(FirstPresent(KeyChain))
        /\ cfgExc = "none"
                <=> /\ SourcesLoad
                    /\ NonEmpty(FirstPresent(RootChain))
                    /\ NonEmpty(FirstPresent(KeyChain))
        /\ cfgExc = "none" =>
                /\ DOMAIN self = {"api_root", "api_key"}
                /\ NonEmpty(self.api_root) /\ NonEmpty(self.api_key)

\* an empty override of api_key fails construction although the payload,
\* the config file and the environment all hold a key
C2_Witness ==
    /\ cfgExc = "ConfigurationException"
    /\ "api_root" \in DOMAIN self /\ NonEmpty(self.api_root)
    /\ KeyKey \in DOMAIN kwargs /\ kwargs[KeyKey] = Str(<<>>)
    /\ KeyChain[2].val = Str(<<"pl">>)
    /\ KeyChain[3].val = Str(<<"cf">>)
    /\ KeyChain[4].val = Str(<<"ev">>)

\* C10: a PAYLOAD_FILE or CONFIG_FILE that is unset, empty or names no
\* existing file counts as an empty mapping and resolution goes on with the
\* other sources; one that names an existing file is parsed, its fields are
\* used, and malformed JSON leaves construction as a parse error.
C10_FileSources ==
    Called =>
        /\ (Malformed("PAYLOAD_FILE") \/ Malformed("CONFIG_FILE"))
                <=> cfgExc = "JSONDecodeError"
        /\ \A var \in {"PAYLOAD_FILE", "CONFIG_FILE"} :
            LET other == CHOOSE o \in {"PAYLOAD_FILE", "CONFIG_FILE"} : o # var
                pos == IF var = "PAYLOAD_FILE" THEN 2 ELSE 3
            IN  /\ (~NamesFile(var) /\ LoadsAsMapping(other)) =>
                    /\ cfgExc \in {"none", "ConfigurationException"}
                    /\ self.api_root =
                         FirstPresent([RootChain EXCEPT ![pos] =
                                        [present |-> FALSE, val |-> None]])
                /\ (NamesFile(var) /\ SourcesLoad /\ RootChain[pos].present
                        /\ \A j \in 1..(pos-1) : ~RootChain[j].present) =>
                    self.api_root = fs[env[var]].text.doc.v[RootKey]

\* PAYLOAD_FILE names a directory and CONFIG_FILE a malformed file: the
\* payload counts as empty and the config file's parse error propagates
C10_Witness ==
    /\ cfgExc = "JSONDecodeError"
    /\ "PAYLOAD_FILE" \in DOMAIN env /\ env["PAYLOAD_FILE"] = PayloadPath
    /\ PayloadPath \in DOMAIN fs /\ fs[PayloadPath].kind = "dir"
    /\ Malformed("CONFIG_FILE")


----------------------------------------------------------------------------
(* Repository: connection fetcher and client builder *)

\* "{}".format(v) and "%s" % v
Format(v) ==
    CASE v.t = "str"  -> v.v
      [] v.t = "int"  -> <<ToString(v.v)>>
      [] v.t = "bool" -> IF v.v THEN <<"True">> ELSE <<"False">>
      [] v.t = "None" -> <<"None">>

\* Repository.__init__
RepositoryNew(api_root, api_key) == [api_root |-> api_root, api_key |-> api_key]

\* r.raise_for_status(): requests raises HTTPError for a 4xx or 5xx status
RaisesForStatus(r) == 400 <= r.status /\ r.status < 600

\* mutant: r.raise_for_status() is left out
GetConnectionUnchecked(this, repository_id, r) == JsonLoad(r.body)

\* get_connection(repository_id), given the response r to its GET
GetConnection(this, repository_id, r) ==
    IF RaisesForStatus(r) THEN Raise("HTTPError") ELSE JsonLoad(r.body)

\* the GET request get_connection sends
ConnectionRequest(this, repository_id) ==
    [url |-> Format(this.api_root) \o <<"/v1/repository/">>
                \o Format(repository_id) \o <<"/connection">>,
     headers |-> [h \in {"X-CogScale-Key"} |-> this.api_key]]

\* MongoClient(uri, **kw)
MongoClient(uri, kw) == [uri |-> uri, kwargs |-> kw]

\* mutant: credentials are embedded when either one is given
MongoUriEither(conn) ==
    IF Truthy(Get(conn, "username", None)) \/ Truthy(Get(conn, "password", None))
    THEN <<"mongodb://">> \o Format(Get(conn, "username", None)) \o <<":">>
            \o Format(Get(conn, "password", None))
            \o <<"@">> \o Format(conn["server"].v["host"]) \o <<":">>
            \o Format(conn["server"].v["port"]) \o <<"/">>
            \o Format(conn["database"])
    ELSE <<"mongodb://">> \o Format(conn["server"].v["host"]) \o <<":">>
            \o Format(conn["server"].v["port"]) \o <<"/">>
            \o Format(conn["database"])

\* _create_client: the connection string.  Line 50 joins the two tests with
\* `&&`, read here as the conjunction `and`.
MongoUri(conn) ==
    IF Truthy(Get(conn, "username", None)) /\ Truthy(Get(conn, "password", None))
    THEN <<"mongodb://">> \o Format(conn["username"]) \o <<":">>
            \o Format(conn["password"])
            \o <<"@">> \o Format(conn["server"].v["host"]) \o <<":">>
            \o Format(conn["server"].v["port"]) \o <<"/">>
            \o Format(conn["database"])
    ELSE <<"mongodb://">> \o Format(conn["server"].v["host"]) \o <<":">>
            \o Format(conn["server"].v["port"]) \o <<"/">>
            \o Format(conn["database"])

\* mutant: the TLS choice tests the flag itself, not parse_bool of it
OpenClientRawFlag(mongo_uri, opts) ==
    IF opts.t # "dict" THEN Raise("AttributeError")
    ELSE IF Truthy(Get(opts.v, "ssl", Bool(FALSE)))
         THEN Return(MongoClient(mongo_uri,
                        [ssl |-> TRUE, ssl_cert_reqs |-> "CERT_NONE"]))
         ELSE Return(MongoClient(mongo_uri, <<>>))

\* _create_client: the TLS choice and the client
OpenClient(mongo_uri, opts) ==
    IF opts.t # "dict" THEN Raise("AttributeError")
    ELSE LET flag == ParseBool(Get(opts.v, "ssl", Bool(FALSE)))
         IN  IF ~flag.ok THEN Raise(flag.exc)
             ELSE IF Truthy(flag.val)
             THEN Return(MongoClient(mongo_uri,
                            [ssl |-> TRUE, ssl_cert_reqs |-> "CERT_NONE"]))
             ELSE Return(MongoClient(mongo_uri, <<>>))

\* Repository._create_client(conn)
CreateClient(conn) ==
    OpenClient(MongoUri(conn), Get(conn["server"].v, "options", EmptyDict))

\* get_client(repository_id), given the response to its GET
GetClient(this, repository_id, r) ==
    LET conn == GetConnection(this, repository_id, r)
    IN  IF ~conn.ok THEN conn ELSE CreateClient(conn.val.v)

\* get_database(repository_id): the client indexed by the database name
GetDatabase(this, repository_id, r) ==
    LET conn == GetConnection(this, repository_id, r)
    IN  IF ~conn.ok THEN conn
        ELSE LET db_name == conn.val.v["database"]
                 client == CreateClient(conn.val.v)
             IN  IF ~client.ok THEN client
                 ELSE Return([client |-> client.val, name |-> db_name])

\* inputs: the descriptors the API may return and the responses carrying them
SslFlags == {None, Bool(TRUE), Bool(FALSE), Num(1),
             Str(<<"t", "r", "u", "e">>), Str(<<"T", "r", "u", "e">>),
             Str(<<"f", "a", "l", "s", "e">>), Str(<<"y", "e", "s">>)}

OptionMaps == {EmptyDict} \cup {Dict([k \in {"ssl"} |-> f]) : f \in SslFlags}

Servers ==
    {Dict([host |-> Str(<<"db.example">>), port |-> Num(27017)])}
    \cup {Dict([host |-> Str(<<"db.example">>), port |-> Num(27017), options |-> o]) :
            o \in OptionMaps \cup {None}}

\* a credential is missing, null, empty or given
Credentials ==
    {c \in UNION {[D -> {None, Str(<<>>), Str(<<"usr">>), Str(<<"pwd">>)}] :
                    D \in SUBSET {"username", "password"}} :
        /\ "username" \in DOMAIN c => c["username"] \in {Str(<<>>), Str(<<"usr">>)}
        /\ "password" \in DOMAIN c => c["password"] \in {None, Str(<<"pwd">>)}}

Descriptors ==
    {Dict(c @@ [server |-> sv, database |-> Str(<<"appdb">>)]) :
        c \in Credentials, sv \in Servers}

Statuses == {200, 302, 404, 500}

Responses ==
    {[status |-> st, body |-> b] :
        st \in Statuses,
        b \in {[valid |-> FALSE]} \cup {[valid |-> TRUE, doc |-> d] : d \in Descriptors}}

RepositoryIds == {Str(<<"repo1">>)}

\* Foundation.repository()
FoundationRepository ==
    /\ cfgExc = "none"
    /\ repo' = RepositoryNew(self.api_root, self.api_key)
    /\ response' = None
    /\ gets' = <<>>
    /\ repoRet' = None
    /\ clients' = <<>>
    /\ UNCHANGED <<cfgVars, obsVars, pbVars>>

\* the MongoClient objects a call opened
Opened(out) ==
    IF ~out.ok THEN <<>>
    ELSE IF "client" \in DOMAIN out.val THEN <<out.val.client>>
    ELSE <<out.val>>

\* repo.get_connection(repository_id)
RepoGetConnection ==
    /\ repo # None
    /\ \E id \in RepositoryIds, r \in Responses :
        /\ gets' = <<ConnectionRequest(repo, id)>>
        /\ response' = r
        /\ repoRet' = [op |-> "get_connection", out |-> GetConnection(repo, id, r)]
        /\ clients' = <<>>
    /\ UNCHANGED <<repo, cfgVars, obsVars, pbVars>>

\* repo.get_client(repository_id)
RepoGetClient ==
    /\ repo # None
    /\ \E id \in RepositoryIds, r \in Responses :
        LET out == GetClient(repo, id, r)
        IN  /\ gets' = <<ConnectionRequest(repo, id)>>
            /\ response' = r
            /\ repoRet' = [op |-> "get_client", out |-> out]
            /\ clients' = Opened(out)
    /\ UNCHANGED <<repo, cfgVars, obsVars, pbVars>>

\* repo.get_database(repository_id)
RepoGetDatabase ==
    /\ repo # None
    /\ \E id \in RepositoryIds, r \in Responses :
        LET out == GetDatabase(repo, id, r)
        IN  /\ gets' = <<ConnectionRequest(repo, id)>>
            /\ response' = r
            /\ repoRet' = [op |-> "get_database", out |-> out]
            /\ clients' = Opened(out)
    /\ UNCHANGED <<repo, cfgVars, obsVars, pbVars>>

\* a Foundation configured from the environment alone
ConfiguredEnv ==
    [n \in {"FOUNDATION_API_ROOT", "FOUNDATION_API_KEY"} |->
        IF n = "FOUNDATION_API_ROOT" THEN Str(<<"https://api.example">>)
        ELSE Str(<<"secret-key">>)]

InitConfigured ==
    /\ env = ConfiguredEnv
    /\ fs = <<>>
    /\ kwargs = <<>>
    /\ self = [api_root |-> Str(<<"https://api.example">>),
               api_key |-> Str(<<"secret-key">>)]
    /\ cfgExc = "none"

InitRepo == InitConfigured /\ RepoIdle /\ ObsIdle /\ PbIdle

NextRepo ==
    \/ FoundationRepository
    \/ RepoGetConnection
    \/ RepoGetClient
    \/ RepoGetDatabase

SpecRepo == InitRepo /\ [][NextRepo]_vars


----------------------------------------------------------------------------
(* Properties of the Repository, stated over the response received *)

RepoCalled == repoRet # None

\* the descriptor the response carries
Conn == response.body.doc.v

\* the call went on to _create_client
ReachedCreateClient ==
    /\ RepoCalled
    /\ repoRet.op \in {"get_client", "get_database"}
    /\ response.status < 400
    /\ response.body.valid

TlsSettings == [ssl |-> TRUE, ssl_cert_reqs |-> "CERT_NONE"]

\* C3 as stated: every status outside 2xx raises an HTTP error, the parsed
\* body is returned only for 2xx, and no client is built otherwise.
C3_RaisesUnless2xx ==
    RepoCalled =>
        /\ response.status \notin 200..299 => repoRet.out = Raise("HTTPError")
        /\ (repoRet.op = "get_connection" /\ repoRet.out.ok) =>
                /\ response.status \in 200..299
                /\ repoRet.out.val = response.body.doc
        /\ response.status \notin 200..299 => clients = <<>>

\* C3 amended: get_connection raises an HTTP error exactly for the 4xx and
\* 5xx statuses and returns the parsed JSON body of any other response that
\* carries JSON; get_client and get_database build no client after a 4xx or
\* 5xx.
C3_RaisesOn4xx5xx ==
    RepoCalled =>
        /\ response.status \in 400..599 <=> repoRet.out = Raise("HTTPError")
        /\ repoRet.op = "get_connection" =>
                /\ repoRet.out.ok => /\ response.status < 400
                                      /\ response.body.valid
                                      /\ repoRet.out.val = response.body.doc
                /\ (response.status < 400 /\ response.body.valid) =>
                        repoRet.out = Return(response.body.doc)
        /\ response.status \in 400..599 => clients = <<>>
        /\ Len(gets) = 1

\* get_client met a 404 that carried a descriptor: it raised, no client
C3_Witness ==
    /\ RepoCalled
    /\ repoRet.op = "get_client"
    /\ response.status = 404
    /\ response.body.valid
    /\ repoRet.out = Raise("HTTPError")
    /\ clients = <<>>

GivenAndSet(c, k) == k \in DOMAIN c /\ c[k] # None

GivenAndNonEmpty(c, k) == k \in DOMAIN c /\ NonEmpty(c[k])

WithCredentials(c) ==
    <<"mongodb://">> \o c["username"].v \o <<":">> \o c["password"].v \o <<"@">>
        \o c["server"].v["host"].v \o <<":", "27017", "/">> \o c["database"].v

WithoutCredentials(c) ==
    <<"mongodb://">> \o c["server"].v["host"].v \o <<":", "27017", "/">>
        \o c["database"].v

HasOptions == "options" \in DOMAIN Conn["server"].v

Options == Conn["server"].v["options"]

HasFlag == HasOptions /\ Options.t = "dict" /\ "ssl" \in DOMAIN Options.v

Flag == Options.v["ssl"]

\* boolean true, or "true" in any mix of cases
ReadsTrue(f) ==
    \/ f = Bool(TRUE)
    \/ /\ f.t = "str"
       /\ Len(f.v) = 4
       /\ f.v[1] \in {"t", "T"} /\ f.v[2] \in {"r", "R"}
       /\ f.v[3] \in {"u", "U"} /\ f.v[4] \in {"e", "E"}

\* C9 as stated: a truthy ssl flag opens the client with TLS and without
\* certificate verification, an absent options map or an absent or false
\* flag opens it without TLS settings, and a client is returned either way.
C9_TlsIffTruthy ==
    (ReachedCreateClient /\ (HasOptions => Options.t = "dict")) =>
        /\ Len(clients) = 1
        /\ (HasFlag /\ Truthy(Flag)) => clients[1].kwargs = TlsSettings
        /\ (~HasFlag \/ ~Truthy(Flag)) => clients[1].kwargs = <<>>

\* C9 amended: the client is opened with TLS and without certificate
\* verification exactly when the ssl flag is boolean true or a string equal
\* to "true" ignoring case; without TLS settings when the options map or the
\* flag is absent or the flag is null, false or another string; a flag of
\* another type, or a null options map, raises and returns no client.
C9_TlsIffReadsTrue ==
    ReachedCreateClient =>
        IF (HasOptions /\ Options.t # "dict")
            \/ (HasFlag /\ Flag.t \notin {"None", "bool", "str"})
        THEN clients = <<>> /\ repoRet.out = Raise("AttributeError")
        ELSE /\ Len(clients) = 1
             /\ repoRet.out.ok
             /\ clients[1].kwargs =
                    IF HasFlag /\ ReadsTrue(Flag) THEN TlsSettings ELSE <<>>

\* the flag "True" opened a client with TLS and CERT_NONE
C9_Witness ==
    /\ ReachedCreateClient
    /\ HasFlag /\ Flag = Str(<<"T", "r", "u", "e">>)
    /\ Len(clients) = 1
    /\ clients[1].kwargs = TlsSettings


----------------------------------------------------------------------------
(* Observers: event notifier *)

MaxQueues == 2

\* json.dumps(msg) of a string: the string in double quotes
JsonDumps(msg) == Str(<<"\"">> \o msg.v \o <<"\"">>)

\* Observers.__init__: `observers or {}`
ObserversNew(api_root, api_key, observers) ==
    [api_root |-> api_root, api_key |-> api_key,
     observers |-> IF Truthy(observers) THEN observers ELSE EmptyDict]

\* mutant: an error is logged only for a 4xx or 5xx status
PostMessageErrorsOnly(this, queue, msg, r) ==
    [request |->
        [url |-> Format(this.api_root) \o <<"/v1/queues/">> \o Format(queue)
                    \o <<"/messages">>,
         json |-> [messages |-> <<[body |-> JsonDumps(msg)]>>],
         headers |-> [h \in {"X-CogScale-Key"} |-> this.api_key]],
     log |-> IF r.status >= 400
             THEN << <<"Observer failed to post message to queue ">>
                        \o Format(queue) \o <<"; error was \"">>
                        \o Format(r.text) \o <<"\"">> >>
             ELSE <<>>]

\* _post_message(queue, msg), given the response r to its POST: the request
\* sent and the error lines logged
PostMessage(this, queue, msg, r) ==
    [request |->
        [url |-> Format(this.api_root) \o <<"/v1/queues/">> \o Format(queue)
                    \o <<"/messages">>,
         json |-> [messages |-> <<[body |-> JsonDumps(msg)]>>],
         headers |-> [h \in {"X-CogScale-Key"} |-> this.api_key]],
     log |-> IF r.status # 201
             THEN << <<"Observer failed to post message to queue ">>
                        \o Format(queue) \o <<"; error was \"">>
                        \o Format(r.text) \o <<"\"">> >>
             ELSE <<>>]

\* mutant: the loop ends at the first queue whose POST is not a 201
RECURSIVE PostAllStopOnFailure(_, _, _, _, _)
PostAllStopOnFailure(this, queues, msg, rs, i) ==
    IF i > Len(queues) THEN [posts |-> <<>>, statuses |-> <<>>, log |-> <<>>]
    ELSE LET one == PostMessage(this, queues[i], msg, rs[i])
             rest == IF rs[i].status # 201
                     THEN [posts |-> <<>>, statuses |-> <<>>, log |-> <<>>]
                     ELSE PostAllStopOnFailure(this, queues, msg, rs, i + 1)
         IN  [posts |-> <<one.request>> \o rest.posts,
              statuses |-> <<rs[i].status>> \o rest.statuses,
              log |-> one.log \o rest.log]

\* `for queue in observers: self._post_message(queue, msg)`, from the i-th
\* queue on; rs[i] is the response to the i-th POST
RECURSIVE PostAll(_, _, _, _, _)
PostAll(this, queues, msg, rs, i) ==
    IF i > Len(queues) THEN [posts |-> <<>>, statuses |-> <<>>, log |-> <<>>]
    ELSE LET one == PostMessage(this, queues[i], msg, rs[i])
             rest == PostAll(this, queues, msg, rs, i + 1)
         IN  [posts |-> <<one.request>> \o rest.posts,
              statuses |-> <<rs[i].status>> \o rest.statuses,
              log |-> one.log \o rest.log]

\* mutant: the queues of the other event kind are looked up
EventObserversSwapped(this, kind) ==
    Get(this.observers.v, IF kind = "error" THEN "completion" ELSE "error", None)

\* self.observers.get('error') / self.observers.get('completion')
EventObservers(this, kind) == Get(this.observers.v, kind, None)

\* the body shared by on_error and on_completion
Notify(this, kind, msg, rs) ==
    LET kind_observers == EventObservers(this, kind)
    IN  IF Truthy(kind_observers)
        THEN PostAll(this, kind_observers.v, msg, rs, 1)
        ELSE [posts |-> <<>>, statuses |-> <<>>, log |-> <<>>]

OnError(this, error, rs) == Notify(this, "error", error, rs)

OnCompletion(this, msg, rs) == Notify(this, "completion", msg, rs)

\* inputs: registries, payloads and the answers of the queue service
QueueNames == {Str(<<"qa">>), Str(<<"qb">>)}

QueueLists == {List(q) : q \in UNION {[1..n -> QueueNames] : n \in 0..MaxQueues}}

Registries ==
    {None} \cup DictsOver({"error", "completion"}, QueueLists \cup {None})

Msgs == {Str(<<"job failed">>)}

PostStatuses == {200, 201, 500}

PostResponses == {[status |-> st, text |-> Str(<<"reply ", ToString(st)>>)] : st \in PostStatuses}

\* Foundation.observers(observers)
FoundationObservers ==
    /\ cfgExc = "none"
    /\ \E o \in Registries :
        /\ observersArg' = o
        /\ obs' = ObserversNew(self.api_root, self.api_key, o)
    /\ posts' = <<>>
    /\ statuses' = <<>>
    /\ log' = <<>>
    /\ obsRet' = None
    /\ UNCHANGED <<cfgVars, repoVars, pbVars>>

\* obs.on_error(error)
ObsOnError ==
    /\ obs # None
    /\ \E error \in Msgs, rs \in [1..MaxQueues -> PostResponses] :
        LET out == OnError(obs, error, rs)
        IN  /\ posts' = out.posts
            /\ statuses' = out.statuses
            /\ log' = out.log
            /\ obsRet' = [op |-> "on_error", msg |-> error, out |-> Return(None)]
    /\ UNCHANGED <<observersArg, obs, cfgVars, repoVars, pbVars>>

\* obs.on_completion(msg)
ObsOnCompletion ==
    /\ obs # None
    /\ \E msg \in Msgs, rs \in [1..MaxQueues -> PostResponses] :
        LET out == OnCompletion(obs, msg, rs)
        IN  /\ posts' = out.posts
            /\ statuses' = out.statuses
            /\ log' = out.log
            /\ obsRet' = [op |-> "on_completion", msg |-> msg, out |-> Return(None)]
    /\ UNCHANGED <<observersArg, obs, cfgVars, repoVars, pbVars>>

InitObs == InitConfigured /\ RepoIdle /\ ObsIdle /\ PbIdle

NextObs ==
    \/ FoundationObservers
    \/ ObsOnError
    \/ ObsOnCompletion

SpecObs == InitObs /\ [][NextObs]_vars


----------------------------------------------------------------------------
(* Properties of the Observers, stated over the registry given *)

ObsCalled == obsRet # None

Kind == IF obsRet.op = "on_error" THEN "error" ELSE "completion"

\* the queue names the caller registered for a kind
Registered(kind) ==
    IF observersArg # None /\ kind \in DOMAIN observersArg.v
            /\ observersArg.v[kind] # None
    THEN observersArg.v[kind].v
    ELSE <<>>

QueueUrl(queue) ==
    self.api_root.v \o <<"/v1/queues/">> \o queue.v \o <<"/messages">>

\* the queue named by an error line
LoggedQueue(line) == Str(<<line[2]>>)

\* C4: on_error (on_completion) sends exactly one POST per queue of the
\* 'error' ('completion') list, in list order, whatever statuses come back:
\* a non-201 neither stops the following queues nor is retried.
C4_OnePostPerQueue ==
    ObsCalled =>
        /\ Len(posts) = Len(Registered(Kind))
        /\ Len(statuses) = Len(posts)
        /\ \A i \in 1..Len(posts) :
            /\ posts[i].url = QueueUrl(Registered(Kind)[i])
            /\ posts[i].json = [messages |-> <<[body |-> JsonDumps(obsRet.msg)]>>]
            /\ posts[i].headers["X-CogScale-Key"] = self.api_key

\* on_error with 'error' = [qa, qb] and 'completion' = [qb]: the POST to
\* qa got a 500 and the POST to qb followed
C4_Witness ==
    /\ ObsCalled
    /\ obsRet.op = "on_error"
    /\ Registered("error") = <<Str(<<"qa">>), Str(<<"qb">>)>>
    /\ Registered("completion") = <<Str(<<"qb">>)>>
    /\ statuses = <<500, 201>>
    /\ Len(posts) = 2

\* C5: an error line naming the queue is logged for a POST exactly when its
\* status is not 201, and the call returns without raising.
C5_LogIffNot201 ==
    ObsCalled =>
        LET n == Len(statuses)
            failed[i \in 0..n] ==
                IF i = 0 THEN <<>>
                ELSE IF statuses[i] # 201
                     THEN Append(failed[i - 1], Registered(Kind)[i])
                     ELSE failed[i - 1]
        IN  /\ Len(log) = Len(failed[n])
            /\ \A j \in 1..Len(log) : LoggedQueue(log[j]) = failed[n][j]
            /\ obsRet.out = Return(None)

\* a 201 for qa and a 200 for qb: one error line, naming qb
C5_Witness ==
    /\ ObsCalled
    /\ Registered(Kind) = <<Str(<<"qa">>), Str(<<"qb">>)>>
    /\ statuses = <<201, 200>>
    /\ Len(log) = 1
    /\ LoggedQueue(log[1]) = Str(<<"qb">>)

\* C6: no request is sent when the registry is None or empty, has no entry
\* for the event kind, or that entry is an empty list.
C6_NoCallsWithoutObservers ==
    (ObsCalled /\ Registered(Kind) = <<>>) => posts = <<>> /\ log = <<>>

\* on_completion with only 'error' queues registered sent nothing
C6_Witness ==
    /\ ObsCalled
    /\ obsRet.op = "on_completion"
    /\ Registered("error") # <<>>
    /\ observersArg # None /\ "completion" \notin DOMAIN observersArg.v
    /\ posts = <<>>

----------------------------------------------------------------------------
(* parse_bool on its own *)

MaxLen == 4

Chars == {"t", "T", "r", "R", "u", "U", "e", "E"}

ParseInputs ==
    {None, Bool(TRUE), Bool(FALSE),
     Str(<<"f", "a", "l", "s", "e">>), Str(<<"F", "a", "l", "s", "e">>),
     Str(<<"y", "e", "s">>), Str(<<"1">>)}
    \cup {Str(w) : w \in UNION {[1..n -> Chars] : n \in 0..MaxLen}}

\* parse_bool(s)
ParseBoolCall ==
    /\ pbOut' = ParseBool(pbIn)
    /\ UNCHANGED <<pbIn, cfgVars, repoVars, obsVars>>

InitParse ==
    /\ pbIn \in ParseInputs
    /\ pbOut = None
    /\ env = <<>> /\ fs = <<>>
    /\ CfgIdle /\ RepoIdle /\ ObsIdle

NextParse == ParseBoolCall

SpecParse == InitParse /\ [][NextParse]_vars

\* C8: parse_bool gives false for None, a boolean unchanged, and for a
\* string true exactly when the string is "true" up to letter case.
C8_ParseBool ==
    pbOut # None =>
        /\ pbOut.ok
        /\ pbIn = None => pbOut.val = Bool(FALSE)
        /\ pbIn.t = "bool" => pbOut.val = pbIn
        /\ pbIn.t = "str" => pbOut.val = Bool(ReadsTrue(pbIn))

\* parse_bool("True") returned true
C8_Witness ==
    /\ pbIn = Str(<<"T", "r", "u", "e">>)
    /\ pbOut = Return(Bool(TRUE))

=============================================================================
